---- MODULE Spec2Model ----
(***************************************************************************)
(* Speculative sampling (src/lssp/ssp.py): the draft sampler, the single   *)
(* target verification pass, the accept/reject scan with its corrective    *)
(* resampling, the bonus token and the orchestration loop of ssp.          *)
(*                                                                         *)
(* Probabilities are exact rationals.  A logits vector gives every token   *)
(* an integer logit; the softmax weight of logit l is 2^l, and a logit of  *)
(* -1 stands for a logit so far below the vector's maximum that its        *)
(* exponential underflows to 0.  A distribution is a record                *)
(* [num |-> weights, den |-> their sum]: token v has probability           *)
(* num[v] / den.                                                           *)
(*                                                                         *)
(* ssp takes its two models as arguments.  The module's own FakeModel      *)
(* returns fresh random logits at every call and position, whatever the    *)
(* tokens are; the other models of a run are deterministic causal models   *)
(* whose next-token logits depend on the last token of the context.        *)
(***************************************************************************)
EXTENDS Integers, Sequences, FiniteSets

\* ---------------------------------------------------------------- bounds
MaxK == 2
MaxMinTokens == 2
MaxLogit == 1
UGrid == 4
VocabSize == 2

\* torch.rand_like gives float32 multiples of 2^-24 in [0,1)
RandMax == 16777216

\* ------------------------------------------------------------ vocabulary
Vocab == 0..(VocabSize - 1)
Prompt == <<1, 0>>
LogitVals == (-1)..MaxLogit
\* finite logits: the maximum of a vector never underflows
LogitSet == {w \in [Vocab -> LogitVals] : \E v \in Vocab : w[v] >= 0}

RECURSIVE Pow2(_)
Pow2(n) == IF n <= 0 THEN 1 ELSE 2 * Pow2(n - 1)

ExpWeight(l) == IF l < 0 THEN 0 ELSE Pow2(l)

\* f[0] + ... + f[n]
RECURSIVE SumTo(_, _)
SumTo(f, n) == IF n < 0 THEN 0 ELSE f[n] + SumTo(f, n - 1)

\* sum(dim=-1): the sum over the vocabulary axis
SumV(f) == SumTo(f, VocabSize - 1)

\* lssp.base.get_temperature_distribution: softmax over the vocabulary axis
get_temperature_distribution(logits) ==
  LET w == [v \in Vocab |-> ExpWeight(logits[v])]
  IN  [num |-> w, den |-> SumV(w)]

\* lssp.base.sample_fn: the tokens a categorical sample of softmax(logits)
\* can return
sample_fn(logits) ==
  {v \in Vocab : get_temperature_distribution(logits).num[v] > 0}

\* ---------------------------------------------------------------- models
\* FakeModel: torch.rand(B, T, V) * 2 - 1, an independent draw for every
\* entry, each of them finite: any vector of logits that do not underflow.
FakeLogits == {w \in LogitSet : \A v \in Vocab : w[v] >= 0}

FakeModel == [kind |-> "fake", w |-> [v \in Vocab |-> 0], ctx |-> FALSE]

\* A deterministic causal model maps a context to next-token logits.  These
\* models put their mass on the tokens 0 and 1, with the logit of token 0
\* at 0 or underflowing (a softmax does not change when a constant is added
\* to every logit); such a model gives either the same logits for every
\* context, or the logits of tokens 0 and 1 exchanged when the context ends
\* in token 1.
ModelLogits ==
  {w \in LogitSet : w[0] <= 0 /\ \A v \in Vocab : v > 1 => w[v] < 0}
ModelSet == [kind : {"fixed"}, w : ModelLogits, ctx : BOOLEAN] \cup {FakeModel}

Swap(w) == [v \in Vocab |-> IF v = 0 THEN w[1] ELSE IF v = 1 THEN w[0] ELSE w[v]]

NextTokenLogits(m, last) == IF m.ctx /\ last = 1 THEN Swap(m.w) ELSE m.w

\* the logits of a deterministic model, one vector per input position
Logits(m, seq) == [i \in 1..Len(seq) |-> NextTokenLogits(m, seq[i])]

\* model(seq).logits[0, :, :] : the tensors one call can return, one logits
\* vector per input position
Forward(m, seq) ==
  IF m.kind = "fake" THEN [1..Len(seq) -> FakeLogits]
  ELSE {Logits(m, seq)}

\* a forward pass can fail (resource exhaustion, invalid context length);
\* FakeModel only draws random numbers and always returns
CanFail(m) == m.kind # "fake"

\* --------------------------------------------------------------- state
VARIABLES
  target_model, draft_model, min_nb_tokens, K, B,   \* arguments of ssp
  T, input_ids, accept_tokens, generated_tokens,    \* locals of ssp
  pc, err,
  it_T, it_input_ids, inputs_plus_k, draft_logits,  \* locals of _ssp_iteration
  target_logits, t, all_accepted, accept_count,
  calls, iters, kinds, examined,                    \* history
  fn_target, fn_draft, fn_out      \* one acceptance step taken on its own

args == <<target_model, draft_model, min_nb_tokens, K, B>>
sspv == <<T, input_ids, accept_tokens, generated_tokens>>
itv  == <<it_T, it_input_ids, inputs_plus_k, draft_logits,
          target_logits, t, all_accepted, accept_count>>
hist == <<calls, iters, kinds, examined>>
fnv  == <<fn_target, fn_draft, fn_out>>
vars == <<args, sspv, pc, err, itv, hist, fnv>>

NoIteration ==
  /\ it_T = 0
  /\ it_input_ids = <<>>
  /\ inputs_plus_k = <<>>
  /\ draft_logits = <<>>
  /\ target_logits = <<>>
  /\ t = 0
  /\ all_accepted = TRUE
  /\ accept_count = 0

Init ==
  /\ target_model \in ModelSet
  /\ draft_model \in ModelSet
  /\ min_nb_tokens \in 0..MaxMinTokens
  /\ K \in 0..MaxK
  /\ B \in 1..2
  /\ T = 0
  /\ input_ids = Prompt
  /\ accept_tokens = 0
  /\ generated_tokens = 0
  /\ pc = "ssp"
  /\ err = "none"
  /\ NoIteration
  /\ calls = <<>>
  /\ iters = 0
  /\ kinds = <<>>
  /\ examined = {}
  /\ fn_target = <<>>
  /\ fn_draft = <<>>
  /\ fn_out = [op |-> "none"]

\* ------------------------------------------------- acceptance engine
\* the ratio of lines 57-60 upside down: draft over target
sampled_ratios_inverted(target_distribution, draft_distribution, x) ==
  [n |-> draft_distribution.num[x] * target_distribution.den,
   d |-> target_distribution.num[x] * draft_distribution.den]

\* target_distribution[.., x] / draft_distribution[.., x] as a fraction n/d
sampled_ratios(target_distribution, draft_distribution, x) ==
  [n |-> target_distribution.num[x] * draft_distribution.den,
   d |-> draft_distribution.num[x] * target_distribution.den]

\* line 61 left out: the ratio is compared as it is
clamped_ratios_unclamped(r) ==
  IF r.d = 0 THEN (IF r.n = 0 THEN [nan |-> TRUE, n |-> 0, d |-> 1]
                   ELSE [nan |-> FALSE, n |-> r.n, d |-> 0])
  ELSE [nan |-> FALSE, n |-> r.n, d |-> r.d]

\* torch.min(sampled_ratios, 1): 0/0 is NaN and stays NaN, n/0 is inf
clamped_ratios(r) ==
  IF r.d = 0 THEN (IF r.n = 0 THEN [nan |-> TRUE, n |-> 0, d |-> 1]
                   ELSE [nan |-> FALSE, n |-> 1, d |-> 1])
  ELSE IF r.n > r.d THEN [nan |-> FALSE, n |-> 1, d |-> 1]
  ELSE [nan |-> FALSE, n |-> r.n, d |-> r.d]

\* the uniform draws of torch.rand_like, as fractions n/d of [0,1): the
\* grid k / UGrid and the largest value a draw can take, 1 - 1/RandMax
Uniform ==
  {[n |-> k, d |-> UGrid] : k \in 0..(UGrid - 1)}
    \cup {[n |-> RandMax - 1, d |-> RandMax]}

\* the comparison of line 64 turned around
Accepts_reversed(u, r) == (~r.nan) /\ (u.n * r.d > r.n * u.d)

\* (rs < sampled_ratios).any() for rs = u.n / u.d; a NaN compares false
Accepts(u, r) == (~r.nan) /\ (u.n * r.d < r.n * u.d)

\* the subtraction of line 34 with its operands exchanged
PositivePart_swapped(target_distribution, draft_distribution) ==
  [v \in Vocab |->
     LET diff == draft_distribution.num[v] * target_distribution.den
                 - target_distribution.num[v] * draft_distribution.den
     IN  IF diff > 0 THEN diff ELSE 0]

\* max(target - draft, 0), as numerators over target.den * draft.den
PositivePart(target_distribution, draft_distribution) ==
  [v \in Vocab |->
     LET diff == target_distribution.num[v] * draft_distribution.den
                 - draft_distribution.num[v] * target_distribution.den
     IN  IF diff > 0 THEN diff ELSE 0]

\* the replacement sampled from the target distribution itself
_target_sample_from_target(target_distribution, draft_distribution) ==
  [divisor |-> target_distribution.den,
   q       |-> target_distribution,
   raises  |-> FALSE,
   tokens  |-> {v \in Vocab : target_distribution.num[v] > 0}]

\* line 37 left out: the positive part is sampled without being divided
\* by its sum
_target_sample_unnormalized(target_distribution, draft_distribution) ==
  LET distribution == PositivePart(target_distribution, draft_distribution)
      total == SumV(distribution)
  IN  [divisor |-> total,
       q       |-> [num |-> distribution,
                    den |-> target_distribution.den * draft_distribution.den],
       raises  |-> (total = 0),
       tokens  |-> IF total = 0 THEN {}
                   ELSE {v \in Vocab : distribution[v] > 0}]

\* The division by distribution.sum() is always performed; a zero sum makes
\* every entry NaN, which torch.multinomial refuses with a RuntimeError.
_target_sample_from_distribution(target_distribution, draft_distribution) ==
  LET distribution == PositivePart(target_distribution, draft_distribution)
      total == SumV(distribution)
  IN  [divisor |-> total,
       q       |-> [num |-> distribution, den |-> total],
       raises  |-> (total = 0),
       tokens  |-> IF total = 0 THEN {}
                   ELSE {v \in Vocab : distribution[v] > 0}]

\* _ssp_iteration, lines 57-77: the test of the speculative token x under
\* the uniform draw u, and what is committed
accept_reject(target_distribution, draft_distribution, x, u) ==
  LET r == clamped_ratios(
             sampled_ratios(target_distribution, draft_distribution, x))
  IN  IF Accepts(u, r)
        THEN [accepted |-> TRUE, raises |-> FALSE, tokens |-> {x}]
        ELSE LET res == _target_sample_from_distribution(
                          target_distribution, draft_distribution)
             IN  [accepted |-> FALSE, raises |-> res.raises,
                  tokens |-> res.tokens]

\* ------------------------------------------------------------- actions
\* the exception caught inside ssp, which returns what it has so far
Raise_caught(e) ==
  /\ pc' = "DONE"
  /\ err' = e

\* an exception leaves ssp: there is no try/except in the module
Raise(e) ==
  /\ pc' = "RAISED"
  /\ err' = e

\* ssp, lines 92-95
ssp_enter ==
  /\ pc = "ssp"
  /\ IF B # 1
       THEN /\ Raise("AssertionError")
            /\ UNCHANGED sspv
       ELSE /\ T' = Len(input_ids)
            /\ accept_tokens' = 0
            /\ generated_tokens' = 0
            /\ pc' = "while"
            /\ UNCHANGED <<input_ids, err>>
  /\ UNCHANGED <<fnv, args, itv, hist>>

\* the loop test with <= for <
ssp_continue_le(len) == len <= T + min_nb_tokens

\* the loop test asking for K tokens more than line 96 does
ssp_continue_plus_K(len) == len < T + min_nb_tokens + K

\* ssp, line 96: input_ids.shape[1] < T + min_nb_tokens
ssp_continue(len) == len < T + min_nb_tokens

\* ssp, line 96 / 102, and the entry of _ssp_iteration and _draft_sample_k
ssp_while ==
  /\ pc = "while"
  /\ IF ssp_continue(Len(input_ids))
       THEN /\ pc' = "draft"
            /\ it_T' = Len(input_ids)
            /\ it_input_ids' = input_ids
            /\ inputs_plus_k' = input_ids
            /\ draft_logits' = <<>>
            /\ UNCHANGED <<target_logits, t, all_accepted, accept_count>>
       ELSE /\ pc' = "DONE"
            /\ UNCHANGED itv
  /\ UNCHANGED <<fnv, args, sspv, err, hist>>

\* line 22 with the model called on the sequence given to _draft_sample_k
\* instead of the sequence extended so far
draft_step_stale ==
  /\ pc = "draft"
  /\ Len(draft_logits) < K
  /\ calls' = Append(calls, [model |-> "draft", len |-> Len(it_input_ids)])
  /\ \/ /\ CanFail(draft_model)
        /\ Raise("forward")
        /\ UNCHANGED itv
     \/ \E outputs \in Forward(draft_model, it_input_ids) :
          LET next_token_logits == outputs[Len(outputs)]
          IN  \E next_token_id \in sample_fn(next_token_logits) :
                /\ inputs_plus_k' = Append(inputs_plus_k, next_token_id)
                /\ draft_logits' = Append(draft_logits, next_token_logits)
                /\ UNCHANGED <<pc, err, it_T, it_input_ids, target_logits, t,
                               all_accepted, accept_count>>
  /\ UNCHANGED <<fnv, args, sspv, iters, kinds, examined>>

\* line 25 as an in-place append: the sequence given to _draft_sample_k
\* grows with the extended one
draft_step_inplace ==
  /\ pc = "draft"
  /\ Len(draft_logits) < K
  /\ calls' = Append(calls, [model |-> "draft", len |-> Len(inputs_plus_k)])
  /\ \/ /\ CanFail(draft_model)
        /\ Raise("forward")
        /\ UNCHANGED itv
     \/ \E outputs \in Forward(draft_model, inputs_plus_k) :
          LET next_token_logits == outputs[Len(outputs)]
          IN  \E next_token_id \in sample_fn(next_token_logits) :
                /\ inputs_plus_k' = Append(inputs_plus_k, next_token_id)
                /\ it_input_ids' = Append(it_input_ids, next_token_id)
                /\ draft_logits' = Append(draft_logits, next_token_logits)
                /\ UNCHANGED <<pc, err, it_T, target_logits, t,
                               all_accepted, accept_count>>
  /\ UNCHANGED <<fnv, args, sspv, iters, kinds, examined>>

\* _draft_sample_k, lines 21-28: one pass of the loop
draft_step ==
  /\ pc = "draft"
  /\ Len(draft_logits) < K
  /\ calls' = Append(calls, [model |-> "draft", len |-> Len(inputs_plus_k)])
  /\ \/ /\ CanFail(draft_model)
        /\ Raise("forward")
        /\ UNCHANGED itv
     \/ \E outputs \in Forward(draft_model, inputs_plus_k) :
          LET next_token_logits == outputs[Len(outputs)]
          IN  \E next_token_id \in sample_fn(next_token_logits) :
                /\ inputs_plus_k' = Append(inputs_plus_k, next_token_id)
                /\ draft_logits' = Append(draft_logits, next_token_logits)
                /\ UNCHANGED <<pc, err, it_T, it_input_ids, target_logits, t,
                               all_accepted, accept_count>>
  /\ UNCHANGED <<fnv, args, sspv, iters, kinds, examined>>

\* _draft_sample_k, lines 29-30: torch.stack refuses an empty list
draft_stack ==
  /\ pc = "draft"
  /\ Len(draft_logits) >= K
  /\ IF draft_logits = <<>>
       THEN Raise("stack")
       ELSE /\ pc' = "target"
            /\ UNCHANGED err
  /\ UNCHANGED <<fnv, args, sspv, itv, hist>>

\* the slice of line 49 taken one position short, logits[:, -K:, :]
LastN_short(seq, n) ==
  IF n - 1 >= Len(seq) THEN seq ELSE SubSeq(seq, Len(seq) - n + 2, Len(seq))

\* the python slice seq[-n:]
LastN(seq, n) ==
  IF n >= Len(seq) THEN seq ELSE SubSeq(seq, Len(seq) - n + 1, Len(seq))

\* _ssp_iteration, lines 49-55
target_call ==
  /\ pc = "target"
  /\ calls' = Append(calls, [model |-> "target", len |-> Len(inputs_plus_k)])
  /\ \/ /\ CanFail(target_model)
        /\ Raise("forward")
        /\ UNCHANGED itv
     \/ /\ \E outputs \in Forward(target_model, inputs_plus_k) :
             target_logits' = LastN(outputs, K + 1)
        /\ all_accepted' = TRUE
        /\ accept_count' = 0
        /\ t' = 1
        /\ pc' = "scan"
        /\ UNCHANGED <<err, it_T, it_input_ids, inputs_plus_k, draft_logits>>
  /\ UNCHANGED <<fnv, args, sspv, iters, kinds, examined>>

\* the loop of lines 56-77 without the break of line 77
scan_continues_no_break(accepted, tt) == tt + 1 <= K

\* lines 56 and 77: the scan goes on to position tt + 1 only after an accept
scan_continues(accepted, tt) == accepted /\ tt + 1 <= K

\* _ssp_iteration, lines 56-77: one pass of the accept-reject loop
scan_step ==
  /\ pc = "scan"
  /\ t <= K
  /\ examined' = examined \cup {t}
  /\ LET x == inputs_plus_k[it_T + t]
         target_distribution == get_temperature_distribution(target_logits[t])
         draft_distribution == get_temperature_distribution(draft_logits[t])
     IN  \E u \in Uniform :
           LET o == accept_reject(target_distribution, draft_distribution, x, u)
           IN  /\ all_accepted' = (all_accepted /\ o.accepted)
               /\ accept_count' = IF o.accepted THEN accept_count + 1
                                  ELSE accept_count
               /\ t' = IF scan_continues(o.accepted, t) THEN t + 1 ELSE t
               /\ IF o.raises
                    THEN /\ Raise("multinomial")
                         /\ UNCHANGED <<it_input_ids, kinds>>
                    ELSE \E next_token_id \in o.tokens :
                           /\ it_input_ids' = Append(it_input_ids, next_token_id)
                           /\ kinds' = Append(kinds, IF o.accepted THEN "draft"
                                                     ELSE "replacement")
                           /\ pc' = IF scan_continues(o.accepted, t)
                                      THEN "scan" ELSE "bonus"
                           /\ UNCHANGED err
  /\ UNCHANGED <<fnv, args, sspv, it_T, inputs_plus_k, draft_logits,
                 target_logits, calls, iters>>

\* the bonus token sampled without the test of line 80
bonus_due_always == TRUE

\* lines 80-83 left out: no bonus token
bonus_due_never == FALSE

\* _ssp_iteration, line 80: if all_accepted
bonus_due == all_accepted

\* _ssp_iteration, lines 80-83
bonus_step ==
  /\ pc = "bonus"
  /\ IF bonus_due
       THEN \E next_token_id \in sample_fn(target_logits[Len(target_logits)]) :
              /\ it_input_ids' = Append(it_input_ids, next_token_id)
              /\ kinds' = Append(kinds, "bonus")
       ELSE UNCHANGED <<it_input_ids, kinds>>
  /\ pc' = "return"
  /\ UNCHANGED <<fnv, args, sspv, err, it_T, inputs_plus_k, draft_logits,
                 target_logits, t, all_accepted, accept_count, calls, iters,
                 examined>>

\* line 98 without the rebinding of input_ids
iteration_return_lost ==
  /\ pc = "return"
  /\ accept_tokens' = accept_tokens + accept_count
  /\ generated_tokens' = generated_tokens + K
  /\ iters' = iters + 1
  /\ pc' = "while"
  /\ it_T' = 0
  /\ it_input_ids' = <<>>
  /\ inputs_plus_k' = <<>>
  /\ draft_logits' = <<>>
  /\ target_logits' = <<>>
  /\ t' = 0
  /\ all_accepted' = TRUE
  /\ accept_count' = 0
  /\ kinds' = <<>>
  /\ examined' = {}
  /\ UNCHANGED <<fnv, args, T, input_ids, err, calls>>

\* line 99 counting every committed token as accepted
iteration_return_counts_all ==
  /\ pc = "return"
  /\ input_ids' = it_input_ids
  /\ accept_tokens' = accept_tokens + Len(it_input_ids) - Len(input_ids)
  /\ generated_tokens' = generated_tokens + K
  /\ iters' = iters + 1
  /\ pc' = "while"
  /\ it_T' = 0
  /\ it_input_ids' = <<>>
  /\ inputs_plus_k' = <<>>
  /\ draft_logits' = <<>>
  /\ target_logits' = <<>>
  /\ t' = 0
  /\ all_accepted' = TRUE
  /\ accept_count' = 0
  /\ kinds' = <<>>
  /\ examined' = {}
  /\ UNCHANGED <<fnv, args, T, err, calls>>

\* _ssp_iteration line 88 and ssp lines 98-100
iteration_return ==
  /\ pc = "return"
  /\ input_ids' = it_input_ids
  /\ accept_tokens' = accept_tokens + accept_count
  /\ generated_tokens' = generated_tokens + K
  /\ iters' = iters + 1
  /\ pc' = "while"
  /\ it_T' = 0
  /\ it_input_ids' = <<>>
  /\ inputs_plus_k' = <<>>
  /\ draft_logits' = <<>>
  /\ target_logits' = <<>>
  /\ t' = 0
  /\ all_accepted' = TRUE
  /\ accept_count' = 0
  /\ kinds' = <<>>
  /\ examined' = {}
  /\ UNCHANGED <<fnv, args, T, err, calls>>

Next ==
  \/ ssp_enter
  \/ ssp_while
  \/ draft_step
  \/ draft_stack
  \/ target_call
  \/ scan_step
  \/ bonus_step
  \/ iteration_return

Spec == Init /\ [][Next]_vars

\* the loop of ssp and the model calls are blocking and sequential: a step
\* that can be taken is taken
FairSpec == Spec /\ WF_vars(Next)

\* ------------------------------------- one acceptance step on its own
\* The acceptance engine applied to one position: any target logits, any
\* draft logits.
InitFn ==
  /\ fn_target \in LogitSet
  /\ fn_draft \in LogitSet
  /\ fn_out = [op |-> "none"]
  /\ pc = "fn"
  /\ err = "none"
  /\ target_model = <<>>
  /\ draft_model = <<>>
  /\ min_nb_tokens = 0
  /\ K = 0
  /\ B = 1
  /\ T = 0
  /\ input_ids = <<>>
  /\ accept_tokens = 0
  /\ generated_tokens = 0
  /\ NoIteration
  /\ calls = <<>>
  /\ iters = 0
  /\ kinds = <<>>
  /\ examined = {}

\* _target_sample_from_distribution, lines 33-38, called on the two
\* distributions
fn_target_sample ==
  /\ pc = "fn"
  /\ LET res == _target_sample_from_distribution(
                  get_temperature_distribution(fn_target),
                  get_temperature_distribution(fn_draft))
     IN  IF res.raises
           THEN /\ Raise("multinomial")
                /\ fn_out' = [op |-> "sample", divisor |-> res.divisor,
                              q |-> res.q, raised |-> TRUE, token |-> -1]
           ELSE \E next_token_id \in res.tokens :
                  /\ fn_out' = [op |-> "sample", divisor |-> res.divisor,
                                q |-> res.q, raised |-> FALSE,
                                token |-> next_token_id]
                  /\ pc' = "fn_done"
                  /\ UNCHANGED err
  /\ UNCHANGED <<fn_target, fn_draft, args, sspv, itv, hist>>

\* lines 24 and 57-77 at one position: x sampled from the draft logits, then
\* the accept/reject test
fn_accept_reject ==
  /\ pc = "fn"
  /\ \E x \in sample_fn(fn_draft), u \in Uniform :
       LET o == accept_reject(get_temperature_distribution(fn_target),
                              get_temperature_distribution(fn_draft), x, u)
           r == clamped_ratios(sampled_ratios(
                  get_temperature_distribution(fn_target),
                  get_temperature_distribution(fn_draft), x))
       IN  IF o.raises
             THEN /\ Raise("multinomial")
                  /\ fn_out' = [op |-> "step", x |-> x, r |-> r,
                                accepted |-> o.accepted, token |-> -1]
             ELSE \E next_token_id \in o.tokens :
                    /\ fn_out' = [op |-> "step", x |-> x, r |-> r,
                                  accepted |-> o.accepted,
                                  token |-> next_token_id]
                    /\ pc' = "fn_done"
                    /\ UNCHANGED err
  /\ UNCHANGED <<fn_target, fn_draft, args, sspv, itv, hist>>

NextFn ==
  \/ fn_target_sample
  \/ fn_accept_reject

SpecFn == InitFn /\ [][NextFn]_vars

\* ------------------------------------------------------------- claims
\* C1: one call of _ssp_iteration returns a sequence longer than its input
\* by at least 1 and at most K+1 tokens, so the committed length of ssp
\* never decreases and no iteration commits zero tokens.
C1_LengthGrowth ==
  [][/\ Len(input_ids') >= Len(input_ids)
     /\ (pc = "return" =>
           /\ Len(input_ids') - Len(input_ids) >= 1
           /\ Len(input_ids') - Len(input_ids) <= K + 1)]_vars

\* a second iteration that commits K+1 tokens after a first that committed 1
C1_Witness ==
  /\ pc = "return"
  /\ iters = 1
  /\ K >= 2
  /\ Len(input_ids) = T + 1
  /\ Len(it_input_ids) = Len(input_ids) + K + 1

\* C2: for min_nb_tokens >= 1 and K >= 1 (one sequence in the batch), if
\* every forward pass returns, ssp reaches DONE; DONE is entered exactly
\* when the committed length is >= T + min_nb_tokens, so the returned
\* sequence has at least T + min_nb_tokens tokens.
C2_Terminates ==
  /\ (B = 1 /\ K >= 1 /\ min_nb_tokens >= 1)
       => <>(pc = "DONE" \/ err = "forward")
  /\ [](pc = "DONE" => Len(input_ids) >= T + min_nb_tokens)
  /\ [][pc = "while" =>
          (pc' = "DONE" <=> Len(input_ids) >= T + min_nb_tokens)]_vars

\* ssp returned after two iterations, one token past the requested length
C2_Witness ==
  /\ pc = "DONE"
  /\ min_nb_tokens >= 2
  /\ iters = 2
  /\ Len(input_ids) = T + min_nb_tokens + 1

\* exact fractions [n, d] in lowest terms, d > 0
RECURSIVE GCD(_, _)
GCD(a, b) == IF b = 0 THEN a ELSE GCD(b, a % b)

Rat(n, d) == LET g == GCD(n, d) IN [n |-> n \div g, d |-> d \div g]
RAdd(a, b) == Rat(a.n * b.d + b.n * a.d, a.d * b.d)
RMul(a, b) == Rat(a.n * b.n, a.d * b.d)
ROneMinus(a) == Rat(a.d - a.n, a.d)

RECURSIVE RSumTo(_, _)
RSumTo(f, n) == IF n < 0 THEN Rat(0, 1) ELSE RAdd(f[n], RSumTo(f, n - 1))

Prob(distribution, v) == Rat(distribution.num[v], distribution.den)

\* rs is uniform on [0,1): rs < r holds with probability r (never for NaN)
AcceptProb(target_distribution, draft_distribution, x) ==
  LET r == clamped_ratios(
             sampled_ratios(target_distribution, draft_distribution, x))
  IN  IF r.nan THEN Rat(0, 1) ELSE Rat(r.n, r.d)

\* the probability that the draft token is rejected
RejectProb(target_distribution, draft_distribution) ==
  RSumTo([x \in Vocab |->
            RMul(Prob(draft_distribution, x),
                 ROneMinus(AcceptProb(target_distribution, draft_distribution, x)))],
         VocabSize - 1)

\* the probability that y is the token committed at the position: y drawn
\* from the draft and accepted, or a rejection followed by the corrective
\* sample y
CommitProb(target_distribution, draft_distribution, y) ==
  LET rej == RejectProb(target_distribution, draft_distribution)
      res == _target_sample_from_distribution(
               target_distribution, draft_distribution)
      acc == RMul(Prob(draft_distribution, y),
                  AcceptProb(target_distribution, draft_distribution, y))
  IN  IF rej.n = 0 THEN [defined |-> TRUE, p |-> acc]
      ELSE IF res.raises THEN [defined |-> FALSE, p |-> acc]
      ELSE [defined |-> TRUE,
            p |-> RAdd(acc, RMul(rej, Rat(res.q.num[y], res.q.den)))]

\* C3: for every target and draft distribution at one position, the token
\* committed by the accept/reject step is distributed exactly as the target:
\* p_draft(y) * min(1, p_target(y)/p_draft(y)) + P(reject) * q(y)
\* = p_target(y) for every token y.
C3_Exactness ==
  pc = "fn" =>
    LET target_distribution == get_temperature_distribution(fn_target)
        draft_distribution == get_temperature_distribution(fn_draft)
    IN  \A y \in Vocab :
          LET c == CommitProb(target_distribution, draft_distribution, y)
          IN  /\ c.defined
              /\ c.p = Prob(target_distribution, y)

\* a draft token whose ratio is strictly between 0 and 1 is rejected and
\* replaced by another token, neither distribution being a point mass
C3_Witness ==
  /\ pc = "fn_done"
  /\ fn_out.op = "step"
  /\ ~fn_out.accepted
  /\ fn_out.token # fn_out.x
  /\ LET target_distribution == get_temperature_distribution(fn_target)
         draft_distribution == get_temperature_distribution(fn_draft)
     IN  /\ fn_out.r.n > 0
         /\ fn_out.r.n < fn_out.r.d
         /\ _target_sample_from_distribution(
              target_distribution, draft_distribution).tokens # {}
         /\ \A v \in Vocab : draft_distribution.num[v] > 0
         /\ \A v \in Vocab : target_distribution.num[v] > 0

\* the test of the speculative token at position tt of the running
\* iteration passes whatever the uniform draw
SurelyAccepted(tt) ==
  LET r == clamped_ratios(sampled_ratios(
             get_temperature_distribution(target_logits[tt]),
             get_temperature_distribution(draft_logits[tt]),
             inputs_plus_k[it_T + tt]))
  IN  (~r.nan) /\ r.n = r.d

\* C4: a rejection ends the scan: when the first rejected speculative token
\* is at position t, the iteration commits the first t-1 draft tokens in
\* order, then one replacement sampled from the corrective distribution of
\* position t, and no later draft token is examined or committed.
C4_RejectionTerminal ==
  (pc \in {"bonus", "return"} /\ ~all_accepted) =>
    /\ t \in 1..K
    /\ examined = 1..t
    /\ Len(it_input_ids) = it_T + t
    /\ SubSeq(it_input_ids, 1, it_T) = input_ids
    /\ \A i \in 1..(t - 1) : it_input_ids[it_T + i] = inputs_plus_k[it_T + i]
    /\ it_input_ids[it_T + t] \in
         _target_sample_from_distribution(
           get_temperature_distribution(target_logits[t]),
           get_temperature_distribution(draft_logits[t])).tokens
    /\ kinds = [i \in 1..t |-> IF i < t THEN "draft" ELSE "replacement"]

\* a rejection at position 1 of 2 although the draft token of position 2
\* would have been accepted under any draw
C4_Witness ==
  /\ pc = "return"
  /\ ~all_accepted
  /\ t < K
  /\ SurelyAccepted(t + 1)

HasKind(k) == \E i \in DOMAIN kinds : kinds[i] = k

\* l is a logits vector that model m can return at position i of seq
OutputAt(m, seq, i, l) ==
  IF m.kind = "fake" THEN l \in FakeLogits ELSE l = Logits(m, seq)[i]

\* C5: an iteration commits a bonus token if and only if all K speculative
\* tokens were accepted; it then commits the K draft tokens in order and
\* one token sampled from the target's output at the last speculative
\* position, K+1 tokens in all, and no replacement.
C5_BonusIffAllAccepted ==
  pc = "return" =>
    /\ HasKind("bonus") <=> accept_count = K
    /\ accept_count = K =>
         /\ Len(it_input_ids) = it_T + K + 1
         /\ SubSeq(it_input_ids, 1, it_T + K) = inputs_plus_k
         /\ OutputAt(target_model, inputs_plus_k, it_T + K,
                     target_logits[K + 1])
         /\ it_input_ids[it_T + K + 1] \in sample_fn(target_logits[K + 1])
         /\ kinds = [i \in 1..(K + 1) |-> IF i <= K THEN "draft" ELSE "bonus"]

\* all of two speculative tokens accepted and the bonus token committed
C5_Witness ==
  /\ pc = "return"
  /\ K >= 2
  /\ accept_count = K
  /\ kinds[K + 1] = "bonus"

NumDraft == Cardinality({i \in DOMAIN kinds : kinds[i] = "draft"})

\* C6: every iteration adds K to the attempted counter and the number of
\* draft tokens accepted in it (0..K, bonus and replacement not counted) to
\* the accepted counter; so 0 <= accepted <= attempted = K * iterations.
C6_Statistics ==
  /\ [](/\ accept_tokens >= 0
        /\ accept_tokens <= generated_tokens
        /\ generated_tokens = K * iters)
  /\ [][pc = "return" =>
          /\ generated_tokens' = generated_tokens + K
          /\ accept_tokens' = accept_tokens + NumDraft
          /\ NumDraft \in 0..K
          /\ NumDraft = Len(it_input_ids) - Len(input_ids) - 1]_vars

\* ssp returned after two iterations with one of four draft tokens accepted
C6_Witness ==
  /\ pc = "DONE"
  /\ iters = 2
  /\ K = 2
  /\ accept_tokens = 1
  /\ generated_tokens = 4

SameDistribution(a, b) == \A v \in Vocab : a.num[v] * b.den = b.num[v] * a.den

IdenticalModels ==
  /\ draft_model.kind = "fixed"
  /\ target_model.kind = "fixed"
  /\ \A last \in Vocab :
       SameDistribution(
         get_temperature_distribution(NextTokenLogits(draft_model, last)),
         get_temperature_distribution(NextTokenLogits(target_model, last)))

\* C7: when draft and target give the same next-token distribution for
\* every context, every draft token is accepted: each iteration commits K+1
\* tokens, no replacement is sampled, and accepted = attempted.
C7_IdenticalAllAccepted ==
  IdenticalModels =>
    /\ ~HasKind("replacement")
    /\ err # "multinomial"
    /\ pc \in {"bonus", "return"} => (all_accepted /\ accept_count = K)
    /\ pc = "return" => Len(it_input_ids) = Len(input_ids) + K + 1
    /\ accept_tokens = generated_tokens

\* ssp returned under two models with different logits and the same
\* distributions, the draft one depending on the context
C7_Witness ==
  /\ IdenticalModels
  /\ draft_model.w # target_model.w
  /\ draft_model.ctx
  /\ pc = "DONE"
  /\ iters >= 1
  /\ accept_tokens = generated_tokens

PointMass(distribution, v) == distribution.num[v] = distribution.den

DisjointModels ==
  /\ draft_model.kind = "fixed"
  /\ target_model.kind = "fixed"
  /\ \A last \in Vocab :
       /\ PointMass(
            get_temperature_distribution(NextTokenLogits(draft_model, last)),
            0)
       /\ PointMass(
            get_temperature_distribution(NextTokenLogits(target_model, last)),
            1)

\* C8: when the draft has all its mass on token 0 and the target all its
\* mass on token 1, the first speculative token of every iteration is
\* rejected and replaced by token 1: each iteration commits exactly the
\* token 1 and the accepted counter stays 0.
C8_DisjointAllRejected ==
  DisjointModels =>
    /\ accept_tokens = 0
    /\ accept_count = 0
    /\ err # "multinomial"
    /\ pc \in {"bonus", "return"} =>
         /\ ~all_accepted
         /\ examined = {1}
         /\ it_input_ids = Append(input_ids, 1)

\* two iterations of two speculative tokens each, all rejected
C8_Witness ==
  /\ DisjointModels
  /\ pc = "DONE"
  /\ K = 2
  /\ iters = 2
  /\ input_ids = Prompt \o <<1, 1>>

\* C9: a call with min_nb_tokens <= 0, K < 1 or B > 1 is rejected with an
\* error before any forward pass: it never returns normally and never
\* invokes a model.
C9_PreconditionRejected ==
  (min_nb_tokens <= 0 \/ K < 1 \/ B > 1) =>
    /\ pc # "DONE"
    /\ calls = <<>>

\* C10: when max(0, p_target - p_draft) has total mass zero,
\* _target_sample_from_distribution fails without normalizing by the zero
\* sum and without returning a token.
C10_ZeroMassHandled ==
  (pc \in {"fn_done", "RAISED"} /\ fn_out.op = "sample"
   /\ SumV(PositivePart(get_temperature_distribution(fn_target),
                        get_temperature_distribution(fn_draft))) = 0) =>
    /\ fn_out.raised
    /\ fn_out.token \notin Vocab
    /\ fn_out.divisor # 0

InIteration == pc \in {"draft", "target", "scan", "bonus", "return"}

\* C11: in every iteration the draft model is invoked exactly K times, one
\* after the other, on sequences of lengths T, T+1, ..., T+K-1 (the
\* sequence given plus the tokens sampled so far), then the target model
\* exactly once on the extended sequence of length T+K; no model is invoked
\* during the accept/reject scan or the bonus step.
C11_Invocations ==
  /\ [](pc = "draft" =>
          /\ Len(calls) = (K + 1) * iters + Len(draft_logits)
          /\ Len(inputs_plus_k) = it_T + Len(draft_logits)
          /\ SubSeq(inputs_plus_k, 1, it_T) = input_ids)
  /\ [](pc \in {"scan", "bonus", "return"} =>
          /\ Len(calls) = (K + 1) * (iters + 1)
          /\ \A i \in 1..K :
               calls[(K + 1) * iters + i] =
                 [model |-> "draft", len |-> it_T + i - 1]
          /\ calls[(K + 1) * (iters + 1)] =
               [model |-> "target", len |-> it_T + K])
  /\ [](pc \in {"while", "DONE"} => Len(calls) = (K + 1) * iters)
  /\ [][(pc \in {"scan", "bonus", "return"}) => (calls' = calls)]_vars

\* the second iteration of a run with K = 2 is about to return: six calls
C11_Witness ==
  /\ pc = "return"
  /\ iters = 1
  /\ K = 2
  /\ Len(calls) = 6
  /\ calls[4].len = it_T
  /\ it_T > T

\* C13: for any target and draft distributions, the ratio compared with
\* the uniform draw is, after the clamp, a defined value in [0,1].
C13_RatioInUnitInterval ==
  (pc \in {"fn_done", "RAISED"} /\ fn_out.op = "step") =>
    /\ ~fn_out.r.nan
    /\ fn_out.r.d > 0
    /\ fn_out.r.n >= 0
    /\ fn_out.r.n <= fn_out.r.d

\* a draft token whose target probability exceeds its draft probability:
\* the raw ratio is above 1 and the compared ratio is 1
C13_Witness ==
  /\ pc = "fn_done"
  /\ fn_out.op = "step"
  /\ LET raw == sampled_ratios(get_temperature_distribution(fn_target),
                               get_temperature_distribution(fn_draft),
                               fn_out.x)
     IN  raw.n > raw.d
  /\ fn_out.r.n = fn_out.r.d
  /\ fn_out.accepted

\* p_target(v) > p_draft(v) for the two softmax distributions of the
\* stand-alone call, by cross-multiplication
TargetExceeds(v) ==
  LET td == get_temperature_distribution(fn_target)
      dd == get_temperature_distribution(fn_draft)
  IN  td.num[v] * dd.den > dd.num[v] * td.den

\* C14: whenever sum(max(0, p_target - p_draft)) is nonzero, the
\* corrective distribution q of _target_sample_from_distribution has only
\* non-negative entries that sum to 1, is zero on every token where
\* p_draft >= p_target, and the returned token has q > 0, i.e.
\* p_target > p_draft.
C14_CorrectiveDistribution ==
  (fn_out.op = "sample" /\ \E v \in Vocab : TargetExceeds(v)) =>
    /\ pc = "fn_done"
    /\ ~fn_out.raised
    /\ fn_out.q.den > 0
    /\ \A v \in Vocab : fn_out.q.num[v] >= 0
    /\ SumV(fn_out.q.num) = fn_out.q.den
    /\ \A v \in Vocab : ~TargetExceeds(v) => fn_out.q.num[v] = 0
    /\ fn_out.q.num[fn_out.token] > 0
    /\ TargetExceeds(fn_out.token)

\* two distributions of full support: the corrective distribution is zero
\* on token 0, where the draft exceeds the target, and token 1 is returned
C14_Witness ==
  /\ pc = "fn_done"
  /\ fn_out.op = "sample"
  /\ \A v \in Vocab : fn_target[v] >= 0 /\ fn_draft[v] >= 0
  /\ fn_out.q.num[0] = 0
  /\ fn_out.q.num[1] > 0
  /\ fn_out.token = 1
  /\ ~TargetExceeds(0)

\* C15: a failing draft or target forward pass is reported to the caller
\* of ssp at that call: the failing invocation is the last one of the run,
\* nothing is retried and no sequence or counters are returned.
C15_FailurePropagated ==
  /\ [](err = "forward" =>
          /\ pc = "RAISED"
          /\ calls # <<>>
          /\ calls[Len(calls)].len = Len(inputs_plus_k))
  /\ [](pc = "DONE" => err = "none")
  /\ [][err # "forward"]_vars
  /\ [][(err' = "forward") =>
          /\ Len(calls') = Len(calls) + 1
          /\ pc \in {"draft", "target"}
          /\ calls'[Len(calls')].model =
               (IF pc = "draft" THEN "draft" ELSE "target")
          /\ input_ids' = input_ids
          /\ accept_tokens' = accept_tokens
          /\ generated_tokens' = generated_tokens]_vars

\* the target pass of the second iteration fails
C15_Witness ==
  /\ err = "forward"
  /\ pc = "RAISED"
  /\ iters = 1
  /\ Len(input_ids) > T
  /\ calls[Len(calls)].model = "target"

\* a is a prefix of b
IsPrefix(a, b) == Len(a) <= Len(b) /\ SubSeq(b, 1, Len(a)) = a

\* C16: the committed sequence is append-only: the caller's sequence is a
\* prefix of it at every point, every committed sequence is a prefix of
\* every later one, a speculative token that was not accepted is not in
\* it, and _draft_sample_k returns an extended copy of length T+K and
\* leaves the sequence it was given as it was.
C16_AppendOnly ==
  /\ [](IsPrefix(Prompt, input_ids))
  /\ [][IsPrefix(input_ids, input_ids')]_vars
  /\ [](InIteration =>
          /\ IsPrefix(input_ids, it_input_ids)
          /\ IsPrefix(input_ids, inputs_plus_k)
          /\ Len(input_ids) = it_T)
  /\ [](pc \in {"draft", "target"} => it_input_ids = input_ids)
  /\ [](pc \in {"target", "scan", "bonus", "return"} =>
          Len(inputs_plus_k) = it_T + K)
  /\ [](pc \in {"scan", "bonus", "return"} =>
          /\ IsPrefix(SubSeq(inputs_plus_k, 1, it_T + accept_count),
                      it_input_ids)
          /\ Len(it_input_ids) <= it_T + accept_count + 1)
  /\ [][(pc \in {"scan", "bonus"}) => IsPrefix(it_input_ids, it_input_ids')]_vars

\* a rejected speculative token differs from the replacement committed in
\* its place, in the second iteration
C16_Witness ==
  /\ pc = "return"
  /\ iters = 1
  /\ Len(input_ids) > T
  /\ ~all_accepted
  /\ accept_count = 1
  /\ K = 2
  /\ it_input_ids[it_T + 2] # inputs_plus_k[it_T + 2]

\* the context of speculative token tt: the sequence given to the
\* iteration followed by the first tt - 1 draft tokens
Context(tt) == SubSeq(inputs_plus_k, 1, it_T + tt - 1)

\* the logits a deterministic model gives for the token that follows seq
NextLogits(m, seq) == Logits(m, seq)[Len(seq)]

DeterministicModels == target_model.kind = "fixed" /\ draft_model.kind = "fixed"

\* C17: for every t in 1..K the test of speculative token t (the token
\* after the first T + t - 1 of the extended sequence) uses the target
\* output at the position just before that token and the draft logits of
\* draft step t, both next-token logits for the same context; the bonus
\* token uses the target output at the last speculative position.
C17_PositionAlignment ==
  /\ [](pc \in {"scan", "bonus", "return"} =>
          /\ Len(target_logits) = K + 1
          /\ Len(draft_logits) = K
          /\ \A tt \in 1..K :
               /\ OutputAt(target_model, inputs_plus_k, it_T + tt - 1,
                           target_logits[tt])
               /\ OutputAt(target_model, Context(tt), Len(Context(tt)),
                           target_logits[tt])
               /\ OutputAt(draft_model, Context(tt), Len(Context(tt)),
                           draft_logits[tt])
          /\ OutputAt(target_model, inputs_plus_k, it_T + K,
                      target_logits[K + 1]))
  /\ [][(pc = "scan" /\ pc' # "RAISED" /\ DeterministicModels) =>
          LET x  == inputs_plus_k[it_T + t]
              td == get_temperature_distribution(
                      NextLogits(target_model, Context(t)))
              dd == get_temperature_distribution(
                      NextLogits(draft_model, Context(t)))
          IN  /\ examined' = examined \cup {t}
              /\ dd.num[x] > 0
              /\ IF accept_count' = accept_count + 1
                   THEN /\ it_input_ids' = Append(it_input_ids, x)
                        /\ td.num[x] > 0
                   ELSE \E y \in Vocab :
                          /\ it_input_ids' = Append(it_input_ids, y)
                          /\ td.num[y] * dd.den > dd.num[y] * td.den
                          /\ td.num[x] * dd.den < dd.num[x] * td.den]_vars
  /\ [][(pc = "bonus" /\ all_accepted /\ DeterministicModels) =>
          \E y \in Vocab :
            /\ it_input_ids' = Append(it_input_ids, y)
            /\ get_temperature_distribution(
                 NextLogits(target_model, inputs_plus_k)).num[y] > 0]_vars

\* an iteration with K = 2 under a context-dependent target model whose
\* three verification positions carry alternating logits, all accepted
C17_Witness ==
  /\ pc = "return"
  /\ K = 2
  /\ all_accepted
  /\ DeterministicModels
  /\ target_model.ctx
  /\ target_logits[1] # target_logits[2]
  /\ target_logits[2] # target_logits[3]
  /\ Len(it_input_ids) = it_T + 3

\* C18: a rejection never leads to the zero-mass corrective distribution:
\* when a speculative token x with p_draft(x) > 0 is rejected, then
\* p_target(x) < p_draft(x), some token y has p_target(y) > p_draft(y), and
\* the mass sum(max(0, p_target - p_draft)) given to
\* _target_sample_from_distribution is strictly positive.
C18_RejectionHasMass ==
  (fn_out.op = "step" /\ ~fn_out.accepted) =>
    LET td == get_temperature_distribution(fn_target)
        dd == get_temperature_distribution(fn_draft)
        x  == fn_out.x
    IN  /\ dd.num[x] > 0
        /\ SumV(td.num) = td.den
        /\ SumV(dd.num) = dd.den
        /\ td.num[x] * dd.den < dd.num[x] * td.den
        /\ \E y \in Vocab : y # x /\ TargetExceeds(y)
        /\ SumV([v \in Vocab |->
                   IF TargetExceeds(v)
                     THEN td.num[v] * dd.den - dd.num[v] * td.den
                     ELSE 0]) > 0
        /\ pc = "fn_done"
        /\ err = "none"
        /\ TargetExceeds(fn_out.token)

\* a token of positive target probability is rejected and replaced by
\* another token
C18_Witness ==
  /\ pc = "fn_done"
  /\ fn_out.op = "step"
  /\ ~fn_out.accepted
  /\ get_temperature_distribution(fn_target).num[fn_out.x] > 0
  /\ fn_out.r.n > 0
  /\ fn_out.token # fn_out.x

\* C19: every iteration commits exactly one token that is not an accepted
\* draft token, the replacement or the bonus, and commits it last: the
\* iteration gains accept_count + 1 tokens, and at every iteration
\* boundary of ssp the committed length minus T is accept_tokens plus the
\* number of iterations run, the latter being generated_tokens / K.
C19_OneCorrectionPerIteration ==
  /\ (pc \in {"scan", "bonus", "return"} =>
        /\ \A i \in 1..Len(kinds) : kinds[i] # "draft" => i = Len(kinds)
        /\ Len(it_input_ids) = it_T + Len(kinds))
  /\ (pc = "return" =>
        /\ Len(kinds) = accept_count + 1
        /\ \A i \in 1..accept_count : kinds[i] = "draft"
        /\ kinds[accept_count + 1] =
             (IF all_accepted THEN "bonus" ELSE "replacement")
        /\ Len(it_input_ids) = Len(input_ids) + accept_count + 1)
  /\ (pc \in {"while", "DONE"} =>
        /\ Len(input_ids) - T = accept_tokens + iters
        /\ generated_tokens = K * iters
        /\ K * (Len(input_ids) - T) = K * accept_tokens + generated_tokens)

\* two iterations run: the first rejects at once, the second accepts both
\* draft tokens and adds the bonus
C19_Witness ==
  /\ pc = "DONE"
  /\ iters = 2
  /\ K = 2
  /\ accept_tokens = 2
  /\ generated_tokens = 4
  /\ Len(input_ids) = T + 4

\* C20: no iteration is started once the committed length has reached
\* T + min_nb_tokens, so for min_nb_tokens >= 1 and K >= 1 the returned
\* sequence has at most T + min_nb_tokens + K tokens, at most
\* min_nb_tokens iterations are run and the returned attempted count is
\* at most K * min_nb_tokens.
C20_BoundedOvershoot ==
  /\ (InIteration =>
        /\ it_T < T + min_nb_tokens
        /\ Len(input_ids) < T + min_nb_tokens
        /\ iters < min_nb_tokens)
  /\ (pc \in {"while", "DONE"} /\ min_nb_tokens >= 1 /\ K >= 1 =>
        /\ Len(input_ids) <= T + min_nb_tokens + K
        /\ iters <= min_nb_tokens
        /\ generated_tokens <= K * min_nb_tokens)
  /\ (pc = "DONE" => Len(input_ids) >= T + min_nb_tokens)

\* the largest overshoot: the last iteration starts one token short of the
\* goal and commits K + 1 tokens
C20_Witness ==
  /\ pc = "DONE"
  /\ min_nb_tokens = 2
  /\ K = 2
  /\ iters = 2
  /\ generated_tokens = K * min_nb_tokens
  /\ Len(input_ids) = T + min_nb_tokens + K

====
